---- MODULE Spec2Model ----
(***************************************************************************)
(* Model of the data-analytics MCP server: the Tool Dispatcher             *)
(* (src/src/server.py, call_tool and main) and the Data Access Gateway     *)
(* (src/src/database.py, DatabaseConnection).                              *)
(*                                                                         *)
(* A Python str is modelled as a sequence of lexemes (a keyword, an        *)
(* identifier, a run of whitespace, a punctuation mark), so that strip,    *)
(* upper, startswith, f-string interpolation and positional parameter      *)
(* binding are computed rather than assumed.  The PostgreSQL engine is     *)
(* modelled by what it does to the statements this program sends.          *)
(***************************************************************************)
EXTENDS Integers, Sequences, FiniteSets, TLC

\* ---------------------------------------------------------------- bounds
MaxRows == 1
MaxQueryLen == 1

\* ------------------------------------------------------- python strings
\* str.strip(): a whitespace lexeme
IsSpace(lex) == lex = " "

\* str.upper() on one lexeme
UpperLex(lex) ==
    CASE lex = "select" -> "SELECT"
      [] lex = "delete" -> "DELETE"
      [] lex = "from" -> "FROM"
      [] lex = "selected" -> "SELECTED"
      [] lex = "customers" -> "CUSTOMERS"
      [] lex = "orders" -> "ORDERS"
      [] lex = "Orders" -> "ORDERS"
      [] lex = "nosuch" -> "NOSUCH"
      [] OTHER -> lex

upper(s) == [i \in 1..Len(s) |-> UpperLex(s[i])]

RECURSIVE lstrip(_)
lstrip(s) == IF s # <<>> /\ IsSpace(Head(s)) THEN lstrip(Tail(s)) ELSE s

RECURSIVE rstrip(_)
rstrip(s) ==
    IF s # <<>> /\ IsSpace(s[Len(s)]) THEN rstrip(SubSeq(s, 1, Len(s) - 1)) ELSE s

strip(s) == rstrip(lstrip(s))

\* the lexemes whose characters begin with S,E,L,E,C,T
SelectPrefixed == {"SELECT", "SELECTED"}

\* s.startswith("SELECT")
startswith_SELECT(s) == s # <<>> /\ s[1] \in SelectPrefixed

\* ----------------------------------------------------- argument values
\* A value of the argument bag: a str, a non-str JSON value, or a missing key.
Str(s) == [t |-> "str", v |-> s]
Null == [t |-> "null", v |-> <<>>]
Absent == [t |-> "absent", v |-> <<>>]

\* arguments.get(key, ""): the value, or "" when the key is missing
get(bag, key) == IF bag[key].t = "absent" THEN Str(<<>>) ELSE bag[key]

\* ------------------------------------------------------ database engine
\* The base tables the public schema may hold, in the order ORDER BY table_name
\* returns them.  "Orders" is a table created with a quoted, mixed-case name.
AllTables == <<"Orders", "customers", "orders">>

TableSet == {AllTables[i] : i \in 1..Len(AllTables)}

\* A database: the existing base tables of the public schema with their row
\* counts.  The view customer_summary is defined over customers.
Databases == UNION {[T -> 0..MaxRows] : T \in SUBSET TableSet}

\* information_schema.columns of a table, by ordinal position
Columns(t) ==
    IF t = "customers"
    THEN <<[column_name |-> "customer_id", data_type |-> "integer", is_nullable |-> "NO"],
           [column_name |-> "customer_name", data_type |-> "character varying",
            is_nullable |-> "YES"]>>
    ELSE <<[column_name |-> "id", data_type |-> "integer", is_nullable |-> "NO"]>>

\* The engine folds an unquoted identifier to lower case.
Fold(id) == IF id = "Orders" THEN "orders" ELSE id

\* Keywords are case-insensitive to the engine.
Keyword(lex) == IF lex \in {"select", "delete", "from"} THEN UpperLex(lex) ELSE lex

NoSpace(s) == SelectSeq(s, LAMBDA x : ~IsSpace(x))

\* everything from "--" to the end of the text is a comment
RECURSIVE DropComment(_)
DropComment(s) ==
    IF s = <<>> \/ Head(s) = "--" THEN <<>> ELSE <<Head(s)>> \o DropComment(Tail(s))

\* the statements of a text, separated by ";" (empty statements are skipped)
RECURSIVE SplitStmts(_, _)
SplitStmts(s, cur) ==
    IF s = <<>> THEN (IF cur = <<>> THEN <<>> ELSE <<cur>>)
    ELSE IF Head(s) = ";"
         THEN (IF cur = <<>> THEN <<>> ELSE <<cur>>) \o SplitStmts(Tail(s), <<>>)
         ELSE SplitStmts(Tail(s), Append(cur, Head(s)))

Statements(text) ==
    LET toks == DropComment(NoSpace(text))
    IN  SplitStmts([i \in 1..Len(toks) |-> Keyword(toks[i])], <<>>)

\* rows of a relation (a base table, or the view over customers), or "missing"
RelationRows(id, d) ==
    LET r == Fold(id)
    IN  IF r \in DOMAIN d THEN d[r]
        ELSE IF r = "customer_summary" /\ "customers" \in DOMAIN d THEN d["customers"]
        ELSE -1

StmtError(d) ==
    [ok |-> FALSE, desc |-> FALSE, rows |-> <<>>, rowcount |-> -1, db |-> d,
     userdata |-> FALSE]

StmtRows(rows, d, userdata) ==
    [ok |-> TRUE, desc |-> TRUE, rows |-> rows, rowcount |-> Len(rows), db |-> d,
     userdata |-> userdata]

StmtCount(n, d) ==
    [ok |-> TRUE, desc |-> FALSE, rows |-> <<>>, rowcount |-> n, db |-> d,
     userdata |-> FALSE]

\* rows of the tables catalog: one per base table, ordered by table_name
TableRows(d) ==
    LET present == SelectSeq(AllTables, LAMBDA t : t \in DOMAIN d)
    IN  [i \in 1..Len(present) |->
            [table_name |-> <<present[i]>>, column_count |-> Len(Columns(present[i]))]]

\* rows of the columns catalog for the table whose name equals the value `name`
\* (a non-str value, bound as NULL, equals no name)
ColumnRows(name, d) ==
    IF name.t = "str" /\ Len(name.v) = 1 /\ name.v[1] \in DOMAIN d
    THEN Columns(name.v[1]) ELSE <<>>

TablesCatalogStmt ==
    <<"SELECT", "table_name", ",", "column_count", "FROM", "information_schema.tables",
      "WHERE", "table_schema", "=", "'", "public", "'", "ORDER BY", "table_name">>

ColumnsCatalogHead ==
    <<"SELECT", "column_name", "FROM", "information_schema.columns", "WHERE",
      "table_name", "=">>

ColumnsCatalogTail == <<"ORDER BY", "ordinal_position">>

IsPrefix(p, s) == Len(p) <= Len(s) /\ SubSeq(s, 1, Len(p)) = p

\* the comparand of the columns catalog statement: the bound parameter for a
\* placeholder, the quoted text for a literal; <<"?">> marks a malformed one
Comparand(rest, params) ==
    IF rest = <<"%s">> /\ Len(params) = 1 THEN <<"ok", params[1]>>
    ELSE IF Len(rest) >= 2 /\ rest[1] = "'" /\ rest[Len(rest)] = "'"
            /\ \A i \in 2..(Len(rest) - 1) : rest[i] # "'"
         THEN <<"ok", Str(SubSeq(rest, 2, Len(rest) - 1))>>
         ELSE <<"?">>

\* one statement, run inside the connection's transaction on database d
RunStmt(st, params, d) ==
    IF st = <<"SELECT", "1">> THEN StmtRows(<<[c |-> 1]>>, d, FALSE)
    ELSE IF IsPrefix(<<"SELECT", "*", "FROM">>, st)
            /\ (Len(st) = 4 \/ (Len(st) = 6 /\ st[5] = "ORDER BY"))
    THEN LET n == RelationRows(st[4], d)
         IN  IF n < 0 THEN StmtError(d)
             ELSE StmtRows([k \in 1..n |-> [id |-> k]], d, n > 0)
    ELSE IF Len(st) = 6 /\ IsPrefix(<<"SELECT", "COUNT(*)", "as", "count", "FROM">>, st)
    THEN LET n == RelationRows(st[6], d)
         IN  IF n < 0 THEN StmtError(d) ELSE StmtRows(<<[count |-> n]>>, d, FALSE)
    ELSE IF Len(st) = 3 /\ IsPrefix(<<"DELETE", "FROM">>, st)
    THEN LET r == Fold(st[3])
         IN  IF r \in DOMAIN d THEN StmtCount(d[r], [d EXCEPT ![r] = 0])
             ELSE StmtError(d)
    ELSE IF st = TablesCatalogStmt THEN StmtRows(TableRows(d), d, FALSE)
    ELSE IF IsPrefix(ColumnsCatalogHead, st)
    THEN LET rest == SubSeq(st, Len(ColumnsCatalogHead) + 1, Len(st))
             body == IF Len(rest) > 2
                        /\ SubSeq(rest, Len(rest) - 1, Len(rest)) = ColumnsCatalogTail
                     THEN SubSeq(rest, 1, Len(rest) - 2) ELSE rest
             cmp == Comparand(body, params)
         IN  IF cmp[1] = "ok" THEN StmtRows(ColumnRows(cmp[2], d), d, FALSE)
             ELSE StmtError(d)
    ELSE StmtError(d)

\* the statements of one text run in order in one transaction; the outcome is
\* the last statement's, and the first failure aborts the whole text
RECURSIVE RunAll(_, _, _)
RunAll(stmts, params, d) ==
    LET r == RunStmt(Head(stmts), params, d)
    IN  IF ~r.ok \/ Len(stmts) = 1 THEN r ELSE RunAll(Tail(stmts), params, r.db)

\* cursor.execute(query, params) on a fresh connection's transaction
cursor_execute(text, params, d) ==
    LET stmts == Statements(text)
    IN  IF stmts = <<>> THEN StmtError(d) ELSE RunAll(stmts, params, d)

\* ------------------------------------------------------------ dispatcher
ToolNames ==
    {"query_database", "list_tables", "describe_table", "get_customer_summary",
     "no_such_tool"}

\* a check that looks for SELECT anywhere in the text
IsSelect_Contains(query) == \E k \in 1..Len(query) : upper(query)[k] \in SelectPrefixed

\* the check of query_database: query.strip().upper().startswith("SELECT")
IsSelect(query) == startswith_SELECT(upper(strip(query)))

\* the metadata statement of list_tables
ListTablesSQL ==
    <<" ", "SELECT", " ", "table_name", ",", " ", "column_count", " ", "FROM", " ",
      "information_schema.tables", " ", "WHERE", " ", "table_schema", " ", "=", " ",
      "'", "public", "'", " ", "ORDER BY", " ", "table_name", ";", " ">>

\* f"SELECT COUNT(*) as count FROM {table_name}"
CountSQL(table_name) ==
    <<"SELECT", " ", "COUNT(*)", " ", "as", " ", "count", " ", "FROM", " ">> \o table_name

\* the statement text of describe_table
DescribeSQL ==
    <<" ", "SELECT", " ", "column_name", " ", "FROM", " ", "information_schema.columns",
      " ", "WHERE", " ", "table_name", " ", "=", " ", "%s", " ", "ORDER BY", " ",
      "ordinal_position", ";", " ">>

\* the table name formatted into the statement text as a quoted literal
DescribeStatement_Interpolated(table_name) ==
    [text |-> <<" ", "SELECT", " ", "column_name", " ", "FROM", " ",
                "information_schema.columns", " ", "WHERE", " ", "table_name", " ", "=",
                " ", "'">> \o table_name.v
              \o <<"'", " ", "ORDER BY", " ", "ordinal_position", ";", " ">>,
     params |-> <<>>]

\* db.execute_query(query, (table_name,))
DescribeStatement(table_name) == [text |-> DescribeSQL, params |-> <<table_name>>]

SummarySQL ==
    <<"SELECT", " ", "*", " ", "FROM", " ", "customer_summary", " ", "ORDER BY", " ",
      "customer_id">>

\* the exceptions the model raises; all derive from Exception
ExcKinds == {"AttributeError", "OperationalError", "ProgrammingError", "DataError", "TypeError"}

\* an except clause that names the database driver's errors only
Caught_DatabaseErrors(exc) == exc \in {"OperationalError", "ProgrammingError", "DataError"}

\* except Exception as e
Caught(exc) == exc \in ExcKinds

\* the payloads of call_tool
NotSelectPayload == [error |-> "Only SELECT queries are allowed for safety"]

UnknownToolPayload == [error |-> "Unknown tool"]

ExceptionPayload(exc) == [error |-> "str(e)", type |-> exc]

QueryPayload(rows) == [success |-> TRUE, rows |-> Len(rows), data |-> rows]

TablesPayload(rows) == [success |-> TRUE, tables |-> rows]

\* a describe_table that reports a table without columns as an error
DescribePayload_NotFound(table_name, rows) ==
    IF rows = <<>> THEN [error |-> "Table not found"]
    ELSE [success |-> TRUE, table_name |-> table_name, columns |-> rows]

DescribePayload(table_name, rows) ==
    [success |-> TRUE, table_name |-> table_name, columns |-> rows]

SummaryPayload(rows) == [success |-> TRUE, customers |-> rows]

\* a loop that attaches every count to the first entry
AttachCount_First(rows, i, count_result) ==
    [rows EXCEPT ![1] = [row_count |-> count_result[1].count] @@ rows[1]]

\* result['row_count'] = count_result[0]['count'] on entry i
AttachCount(rows, i, count_result) ==
    [rows EXCEPT ![i] = [row_count |-> count_result[1].count] @@ rows[i]]

\* a main that ignores the result of the connection test
MainAfterTest_Ignore(ok) == "serving"

\* main: if not db.test_connection(): return
MainAfterTest(ok) == IF ok THEN "serving" ELSE "exited"

\* a get_connection that never closes
CloseConnection_Leak(conns, c) == conns

\* finally: if conn: conn.close()
CloseConnection(conns, c) == IF c # 0 THEN conns \ {c} ELSE conns

\* ---------------------------------------------------------------- inputs
Alphabet == {" ", "SELECT", "select", "DELETE", "1", ";"}

GeneratedQueries == UNION {[1..n -> Alphabet] : n \in 0..MaxQueryLen}

SampleQueries ==
    {<<" ", "select", " ", "*", " ", "from", " ", "customers", " ">>,
     <<"SELECT", " ", "*", " ", "FROM", " ", "Orders">>,
     <<"SELECT", " ", "*", " ", "FROM", " ", "nosuch">>,
     <<"SELECT", " ", "COUNT(*)", " ", "as", " ", "count", " ", "FROM", " ", "orders">>,
     <<"selected">>,
     <<"DELETE", " ", "FROM", " ", "customers">>,
     <<" ", "delete", " ", "from", " ", "customers">>,
     <<"DELETE", " ", "FROM", " ", "customers", ";", " ", "SELECT", " ", "1">>,
     <<"SELECT", " ", "1", ";", " ", "DELETE", " ", "FROM", " ", "customers">>,
     <<"SELECT", " ", "1", ";", " ", "DELETE", " ", "FROM", " ", "customers", ";", " ",
       "SELECT", " ", "1">>}

QueryValues == {Str(q) : q \in GeneratedQueries \cup SampleQueries} \cup {Null, Absent}

Injection == <<"x", "'", ";", " ", "DELETE", " ", "FROM", " ", "customers", ";", " ", "--">>

TableNameValues ==
    {Str(<<"customers">>), Str(<<"Orders">>), Str(<<"nosuch">>), Str(<<"CUSTOMERS">>),
     Str(Injection), Str(<<>>), Null, Absent}

NoBag == [query |-> Absent, table_name |-> Absent]

Invocations ==
    {[name |-> "query_database", bag |-> [NoBag EXCEPT !.query = q]] : q \in QueryValues}
    \cup {[name |-> "describe_table", bag |-> [NoBag EXCEPT !.table_name = t]] :
            t \in TableNameValues}
    \cup {[name |-> n, bag |-> NoBag] :
            n \in {"list_tables", "get_customer_summary", "no_such_tool"}}

\* ----------------------------------------------------------------- state
VARIABLES
    phase,      \* main: "start", "testing", "serving", "exited"
    startupOk,  \* the value test_connection returned to main
    tcConnected, \* test_connection: get_connection opened a connection
    tcExecuted, \* test_connection: cursor.execute("SELECT 1") succeeded
    pc,         \* call_tool: "idle", or inside execute_query: "connect",
                \* "execute", "exit", or back in call_tool: "resume"; "dead" when an
                \* exception left call_tool
    inv,        \* the invocation being served (name, arguments)
    stmt,       \* execute_query: query, params
    conn,       \* get_connection: conn (0 is None)
    open,       \* the connections open at the database engine
    nconn,      \* connections opened on behalf of the invocation
    ncalls,     \* execute_query calls made by the invocation
    ret,        \* what execute_query returns or raises
    results,    \* list_tables: results
    idx,        \* list_tables: position of the for loop (0 before the loop)
    meta,       \* list_tables: the rows the metadata query returned
    truth,      \* list_tables: per entry, the row count of the table of that name
                \* when the entry's count query ran
    existed,    \* describe_table: a table of the given name existed when the
                \* statement ran
    returned,   \* the response documents call_tool returned for the invocation
    crashed,    \* an exception propagated out of call_tool
    wrote,      \* execute_query committed a change for the invocation
    used,       \* the connections cursor.execute ran on for the invocation
    commits,    \* conn.commit() calls made for the invocation
    db          \* the database

vars ==
    <<phase, startupOk, tcConnected, tcExecuted, pc, inv, stmt, conn, open, nconn,
      ncalls, ret, results, idx, meta, truth, existed, returned, crashed, wrote, used,
      commits, db>>

NoInv == [name |-> "none", bag |-> NoBag]

NoStmt == [text |-> <<>>, params |-> <<>>]

NoRet == [exc |-> "none", rows |-> <<>>, userdata |-> FALSE]

Init ==
    /\ phase = "start"
    /\ startupOk = FALSE
    /\ tcConnected = FALSE
    /\ tcExecuted = FALSE
    /\ pc = "idle"
    /\ inv = NoInv
    /\ stmt = NoStmt
    /\ conn = 0
    /\ open = {}
    /\ nconn = 0
    /\ ncalls = 0
    /\ ret = NoRet
    /\ results = <<>>
    /\ idx = 0
    /\ meta = <<>>
    /\ truth = <<>>
    /\ existed = FALSE
    /\ returned = <<>>
    /\ crashed = FALSE
    /\ wrote = FALSE
    /\ used = {}
    /\ commits = 0
    /\ db \in Databases

\* ----------------------------------------------------- call_tool outcomes
Ret(p) == [kind |-> "return", payload |-> p, exc |-> "none", stmt |-> NoStmt]

Exc(e) == [kind |-> "raise", payload |-> <<>>, exc |-> e, stmt |-> NoStmt]

CallGateway(st) == [kind |-> "call", payload |-> <<>>, exc |-> "none", stmt |-> st]

Raised(e) == [exc |-> e, rows |-> <<>>, userdata |-> FALSE]

\* call_tool up to its first execute_query call, return or exception
FirstStep(i) ==
    IF i.name = "query_database"
    THEN LET query == get(i.bag, "query")
         IN  IF query.t # "str" THEN Exc("AttributeError")
             ELSE IF ~IsSelect(query.v) THEN Ret(NotSelectPayload)
             ELSE CallGateway([text |-> query.v, params |-> <<>>])
    ELSE IF i.name = "list_tables"
    THEN CallGateway([text |-> ListTablesSQL, params |-> <<>>])
    ELSE IF i.name = "describe_table"
    THEN CallGateway(DescribeStatement(get(i.bag, "table_name")))
    ELSE IF i.name = "get_customer_summary"
    THEN CallGateway([text |-> SummarySQL, params |-> <<>>])
    ELSE Ret(UnknownToolPayload)

\* call_tool ends: a returned document, or an exception met by the except clause
Deliver(base, o) ==
    IF o.kind = "return"
    THEN /\ returned' = Append(base, o.payload)
         /\ pc' = "idle"
         /\ crashed' = crashed
    ELSE IF Caught(o.exc)
    THEN /\ returned' = Append(base, ExceptionPayload(o.exc))
         /\ pc' = "idle"
         /\ crashed' = crashed
    ELSE /\ returned' = base
         /\ pc' = "dead"
         /\ crashed' = TRUE

\* the locals of call_tool and execute_query are gone once call_tool has ended
DropLocals ==
    /\ stmt' = NoStmt
    /\ ret' = NoRet
    /\ results' = <<>>
    /\ idx' = 0

\* db.execute_query(query, params) is entered
Enter(st) ==
    /\ stmt' = st
    /\ ret' = NoRet
    /\ pc' = "connect"
    /\ UNCHANGED <<returned, crashed>>

\* ------------------------------------------------------------------ main
\* a test_connection without its except clause
TestConnectionReturns_NoExcept(connected, executed) ==
    IF connected /\ executed THEN "True" ELSE "raise"

\* test_connection: True after connect and execute, False from the except clause
TestConnectionReturns(connected, executed) ==
    IF connected /\ executed THEN "True" ELSE "False"

\* main after db.test_connection() returned r, or raised
AfterTestConnection(r) == IF r = "raise" THEN "raised" ELSE MainAfterTest(r = "True")

\* test_connection: get_connection opens a connection, or fails
TestConnect ==
    /\ phase = "start"
    /\ \E ok \in BOOLEAN :
        IF ok
        THEN /\ conn' = 1
             /\ open' = open \cup {1}
             /\ phase' = "testing"
             /\ tcConnected' = TRUE
             /\ UNCHANGED <<startupOk, tcExecuted>>
        ELSE /\ startupOk' = (TestConnectionReturns(FALSE, FALSE) = "True")
             /\ phase' = AfterTestConnection(TestConnectionReturns(FALSE, FALSE))
             /\ UNCHANGED <<conn, open, tcConnected, tcExecuted>>
    /\ UNCHANGED <<pc, inv, stmt, nconn, ncalls, ret, results, idx, meta, truth,
                   existed, returned, crashed, wrote, used, commits, db>>

\* test_connection: cursor.execute("SELECT 1") succeeds or fails, the connection
\* is closed, and main serves or returns
TestExecute ==
    /\ phase = "testing"
    /\ \E lost \in BOOLEAN :
        LET r == cursor_execute(<<"SELECT", " ", "1">>, <<>>, db)
            ok == r.ok /\ ~lost
        IN  /\ tcExecuted' = ok
            /\ startupOk' = (TestConnectionReturns(TRUE, ok) = "True")
            /\ phase' = AfterTestConnection(TestConnectionReturns(TRUE, ok))
    /\ open' = CloseConnection(open, conn)
    /\ conn' = 0
    /\ UNCHANGED <<tcConnected, pc, inv, stmt, nconn, ncalls, ret, results, idx, meta,
                   truth, existed, returned, crashed, wrote, used, commits, db>>

\* ------------------------------------------------------------- call_tool
\* the transport delivers an invocation to call_tool
Invoke(i) ==
    /\ phase = "serving"
    /\ pc = "idle"
    /\ inv' = i
    /\ nconn' = 0
    /\ meta' = <<>>
    /\ truth' = <<>>
    /\ existed' = FALSE
    /\ wrote' = FALSE
    /\ used' = {}
    /\ commits' = 0
    /\ results' = <<>>
    /\ idx' = 0
    /\ LET o == FirstStep(i)
       IN  IF o.kind = "call"
           THEN /\ stmt' = o.stmt
                /\ ret' = NoRet
                /\ pc' = "connect"
                /\ ncalls' = 1
                /\ returned' = <<>>
                /\ crashed' = crashed
           ELSE /\ Deliver(<<>>, o)
                /\ stmt' = NoStmt
                /\ ret' = NoRet
                /\ ncalls' = 0
    /\ UNCHANGED <<phase, startupOk, tcConnected, tcExecuted, conn, open, db>>

\* ---------------------------------------------------------- execute_query
\* a get_connection that hands out one shared connection
NewConnection_Shared(n) == 1

\* psycopg2.connect: the connection of the n+1st connect of the invocation
NewConnection(n) == n + 1

\* get_connection: psycopg2.connect succeeds or raises
GetConnection ==
    /\ pc = "connect"
    /\ \E ok \in BOOLEAN :
        IF ok
        THEN /\ conn' = NewConnection(nconn)
             /\ open' = open \cup {NewConnection(nconn)}
             /\ nconn' = nconn + 1
             /\ pc' = "execute"
             /\ ret' = ret
        ELSE /\ ret' = Raised("OperationalError")
             /\ pc' = "exit"
             /\ UNCHANGED <<conn, open, nconn>>
    /\ UNCHANGED <<phase, startupOk, tcConnected, tcExecuted, inv, stmt, ncalls,
                   results, idx, meta, truth, existed, returned, crashed, wrote, used,
                   commits, db>>

\* the value is the name of a base table of the public schema
NamesTable(name, d) == name.t = "str" /\ Len(name.v) = 1 /\ name.v[1] \in DOMAIN d

\* the row count of the table named exactly by the entry being counted
ExactCount(entry, d) ==
    IF entry.table_name[1] \in DOMAIN d THEN d[entry.table_name[1]] ELSE -1

\* an execute_query that commits after every statement
Commits_Always(r) == TRUE

\* if cursor.description: ... else: conn.commit()
Commits(r) == ~r.desc

\* what execute_query returns: the fetched rows, or the affected-row count
ReturnValue(r) == IF r.desc THEN r.rows ELSE <<[affected_rows |-> r.rowcount]>>

\* cursor.execute, then fetchall for a row-returning statement, commit otherwise
CursorExecute ==
    /\ pc = "execute"
    /\ \E lost \in BOOLEAN, bad \in BOOLEAN :
        LET r == cursor_execute(stmt.text, stmt.params, db)
        IN  IF lost
            THEN ret' = Raised("OperationalError") /\ UNCHANGED <<db, wrote, truth, commits>>
            ELSE IF ~r.ok
            THEN ret' = Raised("ProgrammingError") /\ UNCHANGED <<db, wrote, truth, commits>>
            ELSE IF r.desc /\ bad /\ r.userdata
            THEN ret' = Raised("DataError") /\ UNCHANGED <<db, wrote, truth, commits>>
            ELSE /\ ret' = [exc |-> "none", rows |-> ReturnValue(r),
                            userdata |-> r.desc /\ r.userdata]
                 /\ truth' = IF r.desc /\ inv.name = "list_tables" /\ idx >= 1
                             THEN Append(truth, ExactCount(results[idx], db))
                             ELSE truth
                 /\ db' = IF Commits(r) THEN r.db ELSE db
                 /\ commits' = IF Commits(r) THEN commits + 1 ELSE commits
                 /\ wrote' = (wrote \/ (Commits(r) /\ r.db # db))
    /\ used' = used \cup {conn}
    /\ existed' = IF inv.name = "describe_table"
                  THEN NamesTable(get(inv.bag, "table_name"), db)
                  ELSE existed
    /\ pc' = "exit"
    /\ UNCHANGED <<phase, startupOk, tcConnected, tcExecuted, inv, stmt, conn, open,
                   nconn, ncalls, results, idx, meta, returned, crashed>>

\* get_connection's finally clause; execute_query returns or raises to call_tool
ExitConnection ==
    /\ pc = "exit"
    /\ open' = CloseConnection(open, conn)
    /\ conn' = 0
    /\ pc' = "resume"
    /\ UNCHANGED <<phase, startupOk, tcConnected, tcExecuted, inv, stmt, nconn, ncalls,
                   ret, results, idx, meta, truth, existed, returned, crashed, wrote,
                   used, commits, db>>

\* ------------------------------------------- call_tool after execute_query
\* execute_query raised: the except clause of call_tool
GatewayRaised ==
    /\ pc = "resume"
    /\ ret.exc # "none"
    /\ Deliver(returned, Exc(ret.exc))
    /\ DropLocals
    /\ UNCHANGED <<phase, startupOk, tcConnected, tcExecuted, inv, conn, open, nconn,
                   ncalls, meta, truth, existed, wrote, used, commits, db>>

\* json.dumps(..., default=str) of rows of user data succeeds or raises
DumpsOutcomes(userdata) == IF userdata THEN {"ok", "TypeError"} ELSE {"ok"}

\* query_database: the rows are serialized and returned
QueryDatabaseReturn ==
    /\ pc = "resume"
    /\ ret.exc = "none"
    /\ inv.name = "query_database"
    /\ \E d \in DumpsOutcomes(ret.userdata) :
        Deliver(returned, IF d = "ok" THEN Ret(QueryPayload(ret.rows)) ELSE Exc(d))
    /\ DropLocals
    /\ UNCHANGED <<phase, startupOk, tcConnected, tcExecuted, inv, conn, open, nconn,
                   ncalls, meta, truth, existed, wrote, used, commits, db>>

\* list_tables: the metadata rows arrive; the loop starts, or ends at once
ListTablesMetadata ==
    /\ pc = "resume"
    /\ ret.exc = "none"
    /\ inv.name = "list_tables"
    /\ idx = 0
    /\ meta' = ret.rows
    /\ IF ret.rows = <<>>
       THEN /\ Deliver(returned, Ret(TablesPayload(ret.rows)))
            /\ DropLocals
            /\ ncalls' = ncalls
       ELSE /\ results' = ret.rows
            /\ idx' = 1
            /\ Enter([text |-> CountSQL(ret.rows[1].table_name), params |-> <<>>])
            /\ ncalls' = ncalls + 1
    /\ UNCHANGED <<phase, startupOk, tcConnected, tcExecuted, inv, conn, open, nconn,
                   truth, existed, wrote, used, commits, db>>

\* list_tables: a count arrives and is attached; the loop goes on, or ends
ListTablesCount ==
    /\ pc = "resume"
    /\ ret.exc = "none"
    /\ inv.name = "list_tables"
    /\ idx >= 1
    /\ LET new == AttachCount(results, idx, ret.rows)
       IN  IF idx = Len(results)
           THEN /\ Deliver(returned, Ret(TablesPayload(new)))
                /\ DropLocals
                /\ ncalls' = ncalls
           ELSE /\ results' = new
                /\ idx' = idx + 1
                /\ Enter([text |-> CountSQL(new[idx + 1].table_name), params |-> <<>>])
                /\ ncalls' = ncalls + 1
    /\ UNCHANGED <<phase, startupOk, tcConnected, tcExecuted, inv, conn, open, nconn,
                   meta, truth, existed, wrote, used, commits, db>>

\* describe_table: the column rows are serialized and returned
DescribeTableReturn ==
    /\ pc = "resume"
    /\ ret.exc = "none"
    /\ inv.name = "describe_table"
    /\ Deliver(returned, Ret(DescribePayload(get(inv.bag, "table_name"), ret.rows)))
    /\ DropLocals
    /\ UNCHANGED <<phase, startupOk, tcConnected, tcExecuted, inv, conn, open, nconn,
                   ncalls, meta, truth, existed, wrote, used, commits, db>>

\* get_customer_summary: the rows are serialized and returned
CustomerSummaryReturn ==
    /\ pc = "resume"
    /\ ret.exc = "none"
    /\ inv.name = "get_customer_summary"
    /\ \E d \in DumpsOutcomes(ret.userdata) :
        Deliver(returned, IF d = "ok" THEN Ret(SummaryPayload(ret.rows)) ELSE Exc(d))
    /\ DropLocals
    /\ UNCHANGED <<phase, startupOk, tcConnected, tcExecuted, inv, conn, open, nconn,
                   ncalls, meta, truth, existed, wrote, used, commits, db>>

\* ------------------------------------------------ other database clients
ServerVars ==
    <<phase, startupOk, tcConnected, tcExecuted, pc, inv, stmt, conn, open, nconn,
      ncalls, ret, results, idx, meta, truth, existed, returned, crashed, wrote, used,
      commits>>

ClientInsert(t) ==
    /\ t \in DOMAIN db
    /\ db[t] < MaxRows
    /\ db' = [db EXCEPT ![t] = @ + 1]
    /\ UNCHANGED ServerVars

ClientDelete(t) ==
    /\ t \in DOMAIN db
    /\ db[t] > 0
    /\ db' = [db EXCEPT ![t] = @ - 1]
    /\ UNCHANGED ServerVars

ClientCreate(t) ==
    /\ t \notin DOMAIN db
    /\ db' = [u \in DOMAIN db \cup {t} |-> IF u = t THEN 0 ELSE db[u]]
    /\ UNCHANGED ServerVars

ClientDrop(t) ==
    /\ t \in DOMAIN db
    /\ db' = [u \in DOMAIN db \ {t} |-> db[u]]
    /\ UNCHANGED ServerVars

\* --------------------------------------------------------- specification
Next ==
    \/ TestConnect
    \/ TestExecute
    \/ \E i \in Invocations : Invoke(i)
    \/ GetConnection
    \/ CursorExecute
    \/ ExitConnection
    \/ GatewayRaised
    \/ QueryDatabaseReturn
    \/ ListTablesMetadata
    \/ ListTablesCount
    \/ DescribeTableReturn
    \/ CustomerSummaryReturn
    \/ \E t \in TableSet : ClientInsert(t)
    \/ \E t \in TableSet : ClientDelete(t)
    \/ \E t \in TableSet : ClientCreate(t)
    \/ \E t \in TableSet : ClientDrop(t)

Spec == Init /\ [][Next]_vars

\* ================================================================ claims
IsSuccess(p) == "success" \in DOMAIN p

IsError(p) == "error" \in DOMAIN p

HasCategory(p) == "type" \in DOMAIN p

\* call_tool has ended for the invocation inv
Ended == pc = "idle" /\ inv # NoInv

\* the query value is a text that, trimmed and uppercased, starts with SELECT
SelectText(val) ==
    /\ val.t = "str"
    /\ LET t == strip(val.v) IN t # <<>> /\ UpperLex(t[1]) \in SelectPrefixed

DeleteCustomers == <<"DELETE", " ", "FROM", " ", "customers">>

\* C1: a query_database invocation whose query, trimmed and uppercased, does not
\* start with SELECT (an empty or missing query included) has ended with exactly
\* one error payload, without any execute_query call, any connection or any
\* committed change.
C1_NonSelectNeverReachesGateway ==
    (inv.name = "query_database" /\ ~SelectText(inv.bag.query)) =>
        /\ pc = "idle"
        /\ ncalls = 0
        /\ nconn = 0
        /\ ~wrote
        /\ Len(returned) = 1
        /\ IsError(returned[1])
        /\ ~IsSuccess(returned[1])

C1_Witness ==
    /\ inv.name = "query_database"
    /\ inv.bag.query = Str(DeleteCustomers)
    /\ returned = <<NotSelectPayload>>
    /\ ncalls = 0
    /\ "customers" \in DOMAIN db
    /\ db["customers"] = 1

\* C2: outside execute_query (and outside the startup test) no connection is
\* open: whatever way an execute_query call ended, the connection it opened is
\* closed when control is back in call_tool; at most one connection is ever open.
C2_NoConnectionLeftOpen ==
    /\ (pc \notin {"execute", "exit"} /\ phase # "testing") => (open = {} /\ conn = 0)
    /\ Cardinality(open) <= 1

C2_Witness ==
    /\ pc = "resume"
    /\ ret.exc = "ProgrammingError"
    /\ nconn = 1
    /\ open = {}

\* C3: no exception leaves call_tool; an ended invocation has returned exactly
\* one document, which is a success payload or an error payload and not both; no
\* document is returned before the end; after the end, failed or not, the
\* server holds no connection and no locals and is ready for the next invocation.
C3_ExactlyOneResponse ==
    /\ ~crashed
    /\ pc # "dead"
    /\ pc # "idle" => returned = <<>>
    /\ Ended =>
        /\ Len(returned) = 1
        /\ IsSuccess(returned[1]) # IsError(returned[1])
        /\ phase = "serving"
        /\ open = {}
        /\ conn = 0
        /\ stmt = NoStmt
        /\ ret = NoRet
        /\ results = <<>>
        /\ idx = 0

C3_Witness ==
    /\ Ended
    /\ inv.name = "list_tables"
    /\ ncalls >= 2
    /\ IsError(returned[1])
    /\ returned[1].type = "ProgrammingError"

\* C4: a returned document is a failure exactly when it carries the error
\* category field, and every failure carries a message.
C4_FailureIffCategory ==
    returned # <<>> =>
        /\ IsError(returned[1]) <=> HasCategory(returned[1])
        /\ ~IsSuccess(returned[1]) => IsError(returned[1])

\* C5: an invocation that omits its required argument (query for
\* query_database, table_name for describe_table) ends with an error payload,
\* never with a success payload.
C5_MissingArgumentIsError ==
    (/\ Ended
     /\ \/ inv.name = "query_database" /\ inv.bag.query = Absent
        \/ inv.name = "describe_table" /\ inv.bag.table_name = Absent) =>
        /\ IsError(returned[1])
        /\ ~IsSuccess(returned[1])

\* C6: a describe_table invocation that has ended, for a name no table of the
\* public schema had when the statement ran, returned the success payload with
\* that table_name and an empty column list, unless the Gateway call failed
\* (a connection failure, the only failure this statement has).
C6_MissingTableIsEmptySuccess ==
    (inv.name = "describe_table" /\ Ended /\ ~existed) =>
        IF IsSuccess(returned[1])
        THEN returned[1] = [success |-> TRUE,
                            table_name |-> get(inv.bag, "table_name"),
                            columns |-> <<>>]
        ELSE /\ HasCategory(returned[1])
             /\ returned[1].type = "OperationalError"

C6_Witness ==
    /\ inv.name = "describe_table"
    /\ inv.bag.table_name = Str(<<"customers">>)
    /\ Ended
    /\ ~existed
    /\ IsSuccess(returned[1])
    /\ returned[1].columns = <<>>

\* C7: for every table_name value, the statement describe_table hands to the
\* Gateway is the fixed text with the value as its single bound parameter; the
\* invocation commits no change; and it ends with the column list of the table
\* of exactly that name (empty when there is none) or with an error payload
\* carrying a category.
C7_DescribeBindsTableName ==
    inv.name = "describe_table" =>
        /\ ~wrote
        /\ pc \in {"connect", "execute", "exit", "resume"} =>
            stmt = [text |-> DescribeSQL, params |-> <<get(inv.bag, "table_name")>>]
        /\ pc = "idle" =>
            /\ Len(returned) = 1
            /\ IF IsSuccess(returned[1])
               THEN returned[1].columns =
                        (IF existed THEN Columns(inv.bag.table_name.v[1]) ELSE <<>>)
               ELSE HasCategory(returned[1])

C7_Witness ==
    /\ inv.name = "describe_table"
    /\ inv.bag.table_name = Str(Injection)
    /\ Ended
    /\ IsSuccess(returned[1])
    /\ returned[1].columns = <<>>
    /\ "customers" \in DOMAIN db
    /\ db["customers"] = 1

\* position of a table name in the order of ORDER BY table_name
Rank(name) == CHOOSE k \in 1..Len(AllTables) : <<AllTables[k]>> = name

\* C8: a successful list_tables response has one entry per row of the metadata
\* query, in the metadata query's order (ascending by table name, so without
\* duplicates), each entry being that row with a row_count attached.
C8_ListTablesKeepsOrder ==
    (inv.name = "list_tables" /\ Ended /\ IsSuccess(returned[1])) =>
        LET tables == returned[1].tables
        IN  /\ Len(tables) = Len(meta)
            /\ \A k \in 1..Len(tables) :
                /\ DOMAIN tables[k] = {"table_name", "column_count", "row_count"}
                /\ tables[k].table_name = meta[k].table_name
                /\ tables[k].column_count = meta[k].column_count
            /\ \A j, k \in 1..Len(tables) :
                j < k => Rank(tables[j].table_name) < Rank(tables[k].table_name)

C8_Witness ==
    /\ inv.name = "list_tables"
    /\ Ended
    /\ IsSuccess(returned[1])
    /\ Len(returned[1].tables) = 3

\* C9: in a successful list_tables response every entry's row_count is the
\* row count the table named in that entry had when the entry's count query
\* ran.
C9_RowCountIsDirectCount ==
    (inv.name = "list_tables" /\ Ended /\ IsSuccess(returned[1])) =>
        LET tables == returned[1].tables
        IN  /\ Len(truth) = Len(tables)
            /\ \A k \in 1..Len(tables) : tables[k].row_count = truth[k]

C10_StartupInvariant ==
    /\ phase = "serving" => startupOk
    /\ phase = "exited" => ~startupOk
    /\ (inv # NoInv \/ pc # "idle" \/ returned # <<>>) => (phase = "serving" /\ startupOk)
    /\ phase \in {"start", "testing"} => (inv = NoInv /\ ncalls = 0)

\* C10: main tests the connection before anything else; an invocation is served
\* only while main is in its serving loop, which it enters only after
\* test_connection returned true; once main has returned because the test
\* failed, it never serves.
C10_ServingOnlyAfterStartupTest ==
    /\ []C10_StartupInvariant
    /\ [][phase = "exited" => phase' = "exited"]_vars
    /\ [][phase' = "serving" => (phase = "serving" \/ (phase = "testing" /\ startupOk'))]_vars

C10_Witness ==
    /\ phase = "serving"
    /\ startupOk
    /\ Ended
    /\ inv.name = "get_customer_summary"
    /\ IsSuccess(returned[1])

\* C11: test_connection never raises; once it has returned, its value is true
\* exactly when both the connect and the trivial statement succeeded, and it
\* has left no connection open (main has returned, or serves with no call
\* inside execute_query).
C11_TestConnectionNeverRaises ==
    /\ phase # "raised"
    /\ phase \in {"serving", "exited"} => (startupOk <=> (tcConnected /\ tcExecuted))
    /\ phase \in {"start", "exited"} => (open = {} /\ conn = 0)
    /\ (phase = "serving" /\ inv = NoInv) => (open = {} /\ conn = 0)
    /\ phase = "testing" => (tcConnected /\ open = {conn})

C11_Witness ==
    /\ phase = "exited"
    /\ tcConnected
    /\ ~tcExecuted
    /\ ~startupOk
    /\ open = {}

C13_Step ==
    (pc = "execute" /\ pc' = "exit") =>
        LET r == cursor_execute(stmt.text, stmt.params, db)
        IN  IF ret'.exc # "none"
            THEN db' = db /\ commits' = commits
            ELSE /\ r.ok
                 /\ IF r.desc
                    THEN /\ ret'.rows = r.rows
                         /\ commits' = commits
                         /\ db' = db
                    ELSE /\ ret'.rows = <<[affected_rows |-> r.rowcount]>>
                         /\ commits' = commits + 1
                         /\ db' = r.db

\* C13: execute_query commits exactly when the executed statement has no column
\* description: a row-returning statement returns all its rows in result order
\* without a commit; any other statement is committed and the affected-row
\* count returned; a failed execution commits nothing.
C13_CommitIffNoDescription == [][C13_Step]_vars

C13_Witness ==
    /\ pc = "exit"
    /\ ret.exc = "none"
    /\ ret.rows = <<[affected_rows |-> 1]>>
    /\ commits = 1
    /\ "customers" \in DOMAIN db
    /\ db["customers"] = 0

\* C14: no query_database invocation commits a modification of the database.
C14_QueryDatabaseNeverWrites ==
    inv.name = "query_database" => (~wrote /\ commits = 0)

====
